---- MODULE Spec2Model ----
(***************************************************************************)
(* A model of the RabbitMQ client layer of POCRabbitMQ (python_version):   *)
(* RabbitMQClient (connection / channel lifecycle, channel_operation),     *)
(* MessageProducer, MessageConsumer and the rabbitmq_connection scope of   *)
(* app.py, together with the part of the broker and of the pika blocking   *)
(* adapter that these classes drive.                                       *)
(*                                                                         *)
(* Every client method is one action: the whole call, from entry to the    *)
(* return or the exception that reaches the caller.  What the environment  *)
(* decides inside a call (the broker being reachable, a channel open being *)
(* accepted, the connection dropping during a round trip, a print failing) *)
(* is an input of the action drawn from a small set.                       *)
(***************************************************************************)
EXTENDS Integers, Sequences, FiniteSets, TLC

(* ------------------------------ bounds -------------------------------- *)
MaxConns == 2
MaxChans == 2
MaxMsgs == 2
MaxDeliveries == 2
MaxText == 2

(* ----------------------------- constants ------------------------------ *)
None == 0
PrefetchCountUnset == 0
NoPrefetchLimit == PrefetchCountUnset
PrefetchCount == 1

ConnIds == 1..MaxConns
ChanIds == 1..MaxChans
Clients == {"prod", "cons"}
ExNames == {"e1"}
QNames == {"q1"}
Keys == {"k1"}
Kinds == {"direct", "topic"}
Tags == {"t1", "t2"}

(* Message texts are sequences of code points; the alphabet has one code   *)
(* point of each UTF-8 length (A, e-acute, euro sign, U+1F600).            *)
CodePoints == {65, 233, 8364, 128512}
Texts == UNION {[1..n -> CodePoints] : n \in 0..MaxText}
(* the headers argument of send_message: None (the default) or a dict *)
NoHeaders == [none |-> TRUE, items |-> {}]
HeaderMaps == {NoHeaders,
               [none |-> FALSE, items |-> {<<"h1", "v1">>}],
               [none |-> FALSE, items |-> {<<"h1", "v1">>, <<"h2", "v2">>}]}
(* what earlier runs published *)
OldText == <<65>>

ClassOf(c) == IF c = "prod" THEN "MessageProducer" ELSE "MessageConsumer"

(* pika.exceptions: the two families channel_operation tells apart *)
AMQPChannelError == {"ChannelWrongStateError", "ChannelClosedByBroker", "DuplicateConsumerTag"}
AMQPConnectionError == {"AMQPConnectionError", "StreamLostError", "ConnectionWrongStateError", "NoFreeChannels"}

VARIABLES
    broker,   \* the broker and pika's view of it: connections, channels, topology, queues
    client,   \* the client objects: their attributes
    app,      \* app.py's rabbitmq_connection scope
    last,     \* the client call that just ended, and how
    cb,       \* the callback invocation that just ended, and how
    processed, \* the messages whose callback's try block completed
    published  \* what send_message was called with, per message

vars == <<broker, client, app, last, cb, processed, published>>

Min(S) == CHOOSE x \in S : \A y \in S : x <= y

(* ------------------------- broker and pika ---------------------------- *)
FreeConns(b) == {i \in ConnIds : b.conns[i].state = "unused"}
FreeChans(b) == {i \in ChanIds : b.chans[i].conn = None}
ChanOpen(b, ch) == ch # None /\ b.chans[ch].open
ConnOpen(b, cn) == cn # None /\ b.conns[cn].state = "open"

RECURSIVE ByTag(_)
ByTag(S) ==
    IF S = {} THEN <<>>
    ELSE LET d == CHOOSE x \in S : \A y \in S : x.tag <= y.tag
         IN <<d.msg>> \o ByTag(S \ {d})

(* A channel ends (closed by the client, by the broker, or with its       *)
(* connection): the broker cancels its consumers and returns its unsettled *)
(* deliveries to the head of their queues.                                 *)
DropChannel(b, ch) ==
    LET back == {d \in b.unacked : d.chan = ch}
    IN [b EXCEPT !.chans[ch].open = FALSE,
                 !.consumers = {k \in @ : k.chan # ch},
                 !.unacked = @ \ back,
                 !.msgs = [q \in QNames |-> ByTag({d \in back : d.queue = q}) \o @[q]]]

RECURSIVE DropChannels(_, _)
DropChannels(b, S) ==
    IF S = {} THEN b
    ELSE LET ch == Min(S) IN DropChannels(DropChannel(b, ch), S \ {ch})

(* A connection ends: closed by who (a client, or "app", the scope that    *)
(* opened it), or "lost" with the transport.  Every channel on it ends.    *)
DropConnection(b, cn, who) ==
    LET b1 == DropChannels(b, {ch \in ChanIds : b.chans[ch].conn = cn /\ b.chans[ch].open})
    IN [b1 EXCEPT !.conns[cn].state = "closed", !.conns[cn].closer = who]

(* pika.BlockingConnection(params): a new open connection *)
OpenConnection(b, cn, who) ==
    [b EXCEPT !.conns[cn] = [state |-> "open", opener |-> who, closer |-> "none"]]

(* connection.channel(): xo is what the broker and the transport answer.   *)
(* A connection that has no channel number left refuses (NoFreeChannels).  *)
ConnectionChannel(cl, b, xo) ==
    LET cn == cl.connection
        ch == Min(FreeChans(b))
    IN IF ~ConnOpen(b, cn)
       THEN [cl |-> cl, b |-> b, err |-> "ConnectionWrongStateError"]
       ELSE CASE xo = "ok" /\ FreeChans(b) # {} ->
                   [cl |-> [cl EXCEPT !.channel = ch],
                    b |-> [b EXCEPT !.chans[ch] = [conn |-> cn, open |-> TRUE,
                                                   prefetch |-> PrefetchCountUnset,
                                                   next_tag |-> 1]],
                    err |-> "none"]
              [] xo \in {"ok", "refused"} ->
                   [cl |-> cl, b |-> b, err |-> "NoFreeChannels"]
              [] OTHER ->
                   [cl |-> cl, b |-> DropConnection(b, cn, "lost"), err |-> "StreamLostError"]

(* RabbitMQClient._initialize_channel *)
initialize_channel(who, cl, b, co, xo) ==
    LET needConn == cl.connection = None /\ cl.connection_params
        cn == Min(FreeConns(b))
        cl1 == IF needConn /\ co = "ok" THEN [cl EXCEPT !.connection = cn] ELSE cl
        b1 == IF needConn /\ co = "ok" THEN OpenConnection(b, cn, who) ELSE b
    IN IF needConn /\ co # "ok"
       THEN [cl |-> cl, b |-> b, err |-> "AMQPConnectionError"]
       ELSE IF cl1.connection # None
            THEN ConnectionChannel(cl1, b1, xo)
            ELSE [cl |-> cl1, b |-> b1, err |-> "ValueError"]

(* ----------------------- pika channel methods -------------------------- *)
(* A synchronous channel method.  On a closed channel pika raises          *)
(* ChannelWrongStateError before sending anything; the transport can drop  *)
(* during the round trip (lost); the broker can refuse the method, which   *)
(* closes the channel (reject); otherwise the method takes effect (then).   *)
Raise(b, e) == [b |-> b, err |-> e, fault |-> e]

ChannelCall(b, ch, lost, reject, then) ==
    IF ~ChanOpen(b, ch) THEN Raise(b, "ChannelWrongStateError")
    ELSE IF lost THEN Raise(DropConnection(b, b.chans[ch].conn, "lost"), "StreamLostError")
    ELSE IF reject THEN Raise(DropChannel(b, ch), "ChannelClosedByBroker")
    ELSE Raise(then, "none")

exchange_declare(b, ch, e, kind, lost) ==
    ChannelCall(b, ch, lost, b.exchanges[e] \notin {"none", kind},
                [b EXCEPT !.exchanges[e] = kind])

queue_declare_passive(b, ch, q, lost) ==
    ChannelCall(b, ch, lost, ~b.queues[q].exists, b)

queue_declare(b, ch, q, durable, dlx, lost) ==
    LET want == [exists |-> TRUE, durable |-> durable, dlx |-> dlx]
    IN ChannelCall(b, ch, lost, b.queues[q].exists /\ b.queues[q] # want,
                   [b EXCEPT !.queues[q] = want])

queue_bind(b, ch, q, e, k, lost) ==
    ChannelCall(b, ch, lost, ~b.queues[q].exists \/ b.exchanges[e] = "none",
                [b EXCEPT !.bindings = @ \cup {<<q, e, k>>}])

(* str.encode('utf-8'): the bytes of a text *)
EncodeCodePoint(c) ==
    IF c < 128 THEN <<c>>
    ELSE IF c < 2048 THEN <<192 + (c \div 64), 128 + (c % 64)>>
    ELSE IF c < 65536
         THEN <<224 + (c \div 4096), 128 + ((c \div 64) % 64), 128 + (c % 64)>>
         ELSE <<240 + (c \div 262144), 128 + ((c \div 4096) % 64),
                128 + ((c \div 64) % 64), 128 + (c % 64)>>

RECURSIVE encode_utf8(_)
encode_utf8(text) ==
    IF text = <<>> THEN <<>>
    ELSE EncodeCodePoint(Head(text)) \o encode_utf8(Tail(text))

decode_latin1(bytes) == bytes

(* bytes.decode('utf-8'): the lead byte tells the length of a sequence *)
RECURSIVE decode_utf8(_)
decode_utf8(bytes) ==
    IF bytes = <<>> THEN <<>>
    ELSE LET b1 == bytes[1]
             n == IF b1 < 128 THEN 1 ELSE IF b1 < 224 THEN 2 ELSE IF b1 < 240 THEN 3 ELSE 4
             c == CASE n = 1 -> b1
                    [] n = 2 -> (b1 - 192) * 64 + (bytes[2] - 128)
                    [] n = 3 -> (b1 - 224) * 4096 + (bytes[2] - 128) * 64 + (bytes[3] - 128)
                    [] OTHER -> (b1 - 240) * 262144 + (bytes[2] - 128) * 4096
                                + (bytes[3] - 128) * 64 + (bytes[4] - 128)
         IN <<c>> \o decode_utf8(SubSeq(bytes, n + 1, Len(bytes)))

(* The queues a publish to (e, k) reaches *)
Routed(b, e, k) == {q \in QNames : <<q, e, k>> \in b.bindings}

(* basic_publish waits for no answer: a publish to a missing exchange      *)
(* returns normally and the broker then closes the channel.                *)
basic_publish(b, ch, e, k, m, body, headers, lost) ==
    ChannelCall(b, ch, lost, FALSE,
                IF b.exchanges[e] = "none" THEN DropChannel(b, ch)
                ELSE [b EXCEPT !.store[m] = [body |-> body, headers |-> headers],
                               !.msgs = [q \in QNames |->
                                           IF q \in Routed(b, e, k) THEN Append(@[q], m) ELSE @[q]],
                               !.sent = @ + 1,
                               !.enq = IF Routed(b, e, k) = {} THEN @ ELSE @ \cup {m}])

(* --------------------------- RabbitMQClient ---------------------------- *)
(* channel_operation.  body is what the with-block did: the broker state  *)
(* it left (b), the exception that left it (err) and the first exception a *)
(* pika call raised in it (fault).  The result adds the exception that     *)
(* reaches the caller (raised).                                            *)
NoRecovery(who, cl, body, xo) ==
    [cl |-> cl, b |-> body.b, fault |-> body.fault, body |-> body.err, raised |-> body.err]

channel_operation(who, cl, body, xo) ==
    IF body.err \in AMQPChannelError \cup AMQPConnectionError
    THEN LET r == initialize_channel(who, cl, body.b, "ok", xo)
         IN [cl |-> r.cl, b |-> r.b, fault |-> body.fault, body |-> body.err,
             raised |-> IF r.err = "none" THEN body.err ELSE r.err]
    ELSE [cl |-> cl, b |-> body.b, fault |-> body.fault, body |-> body.err,
          raised |-> body.err]

RabbitMQClient_declare_exchange(who, cl, b, e, kind, lost, xo) ==
    channel_operation(who, cl, exchange_declare(b, cl.channel, e, kind, lost), xo)

RabbitMQClient_declare_queue(who, cl, b, q, lost, xo) ==
    channel_operation(who, cl, queue_declare(b, cl.channel, q, TRUE, FALSE, lost), xo)

RabbitMQClient_bind_queue(who, cl, b, q, e, k, lost, xo) ==
    channel_operation(who, cl, queue_bind(b, cl.channel, q, e, k, lost), xo)

RabbitMQClient_close(who, cl, b, lost) ==
    LET closing == ChanOpen(b, cl.channel)
        b1 == IF closing
              THEN IF lost THEN DropConnection(b, b.chans[cl.channel].conn, "lost")
                   ELSE DropChannel(b, cl.channel)
              ELSE b
        b2 == IF cl.connection_params /\ cl.connection # None /\ ConnOpen(b1, cl.connection)
              THEN DropConnection(b1, cl.connection, who)
              ELSE b1
    IN [cl |-> cl, b |-> b2,
        fault |-> IF closing /\ lost THEN "StreamLostError" ELSE "none",
        body |-> "none", raised |-> "none"]

(* --------------------------- MessageProducer --------------------------- *)
MessageProducer_declare_exchange(who, cl, b, e, kind, lost, xo) ==
    channel_operation(who, cl, exchange_declare(b, cl.channel, e, kind, lost), xo)

(* The with-block of MessageProducer.declare_queue.  The handler of        *)
(* ChannelClosedByBroker calls self._create_channel(), a method neither    *)
(* MessageProducer nor RabbitMQClient defines: the call raises             *)
(* AttributeError and the full declare below it is never reached.          *)
FullDeclare(cl, b, q, lost) == queue_declare(b, cl.channel, q, TRUE, TRUE, lost)

declare_queue_body(cl, b, q, lost) ==
    LET p == queue_declare_passive(b, cl.channel, q, lost)
    IN IF p.err = "ChannelClosedByBroker"
       THEN [b |-> p.b, err |-> "AttributeError", fault |-> p.err]
       ELSE p

MessageProducer_declare_queue(who, cl, b, q, lost, xo) ==
    channel_operation(who, cl, declare_queue_body(cl, b, q, lost), xo)

MessageProducer_bind_queue(who, cl, b, q, e, k, lost, xo) ==
    channel_operation(who, cl, queue_bind(b, cl.channel, q, e, k, lost), xo)

RetryPublish(who, cl, b, e, k, m, message, headers, lost, xo) ==
    LET r == channel_operation(who, cl,
                 basic_publish(b, cl.channel, e, k, m, encode_utf8(message), headers, lost),
                 xo)
        again == basic_publish(r.b, r.cl.channel, e, k, m, encode_utf8(message), headers, FALSE)
    IN IF r.raised = "none" THEN r ELSE [r EXCEPT !.b = again.b]

MessageProducer_send_message(who, cl, b, e, k, m, message, headers, lost, xo) ==
    channel_operation(who, cl,
                      basic_publish(b, cl.channel, e, k, m, encode_utf8(message), headers, lost),
                      xo)

MessageProducer_close(who, cl, b, lost) ==
    LET r == IF ChanOpen(b, cl.channel)
             THEN IF lost
                  THEN Raise(DropConnection(b, b.chans[cl.channel].conn, "lost"), "StreamLostError")
                  ELSE Raise(DropChannel(b, cl.channel), "none")
             ELSE Raise(b, "none")
    IN [cl |-> cl, b |-> r.b, fault |-> r.fault, body |-> r.err, raised |-> r.err]

(* --------------------------- MessageConsumer --------------------------- *)
Registered(b, ch, tag) == \E k \in b.consumers : k.chan = ch /\ k.ctag = tag

basic_qos(b, ch, n, lost) ==
    ChannelCall(b, ch, lost, FALSE, [b EXCEPT !.chans[ch].prefetch = n])

(* basic_consume: pika refuses a tag it already holds on this channel      *)
(* without asking the broker; the broker refuses a queue that is missing.  *)
(* The consumer gets the prefetch limit its channel has at this moment.    *)
basic_consume(b, ch, q, tag, lost) ==
    IF Registered(b, ch, tag) THEN Raise(b, "DuplicateConsumerTag")
    ELSE ChannelCall(b, ch, lost, ~b.queues[q].exists,
                     [b EXCEPT !.consumers = @ \cup
                         {[chan |-> ch, ctag |-> tag, queue |-> q,
                           prefetch |-> b.chans[ch].prefetch]}])

(* basic_cancel: a tag pika does not hold on the channel (never            *)
(* registered, or dropped when the channel ended) is logged and ignored;   *)
(* otherwise the deliveries not yet handled go back to the queue and the   *)
(* registration ends.                                                      *)
basic_cancel(b, ch, tag, lost) ==
    IF ~Registered(b, ch, tag) THEN Raise(b, "none")
    ELSE LET back == {d \in b.unacked : d.chan = ch /\ d.ctag = tag}
         IN ChannelCall(b, ch, lost, FALSE,
                [b EXCEPT !.consumers = {k \in @ : ~(k.chan = ch /\ k.ctag = tag)},
                          !.unacked = @ \ back,
                          !.msgs = [q \in QNames |->
                                      ByTag({d \in back : d.queue = q}) \o @[q]]])

Holds(b, ch, tag) == \E d \in b.unacked : d.chan = ch /\ d.tag = tag
TheDelivery(b, ch, tag) == CHOOSE d \in b.unacked : d.chan = ch /\ d.tag = tag

(* basic_ack(delivery_tag), multiple = False: the broker forgets the       *)
(* delivery.  A tag the channel does not hold is a protocol error: the     *)
(* call returns and the broker closes the channel.                         *)
basic_ack(b, ch, tag, lost) ==
    ChannelCall(b, ch, lost, FALSE,
                IF Holds(b, ch, tag)
                THEN [b EXCEPT !.unacked = @ \ {TheDelivery(b, ch, tag)}]
                ELSE DropChannel(b, ch))

(* basic_nack(delivery_tag, requeue): the delivery leaves the channel and, *)
(* with requeue, its message returns to the head of its queue.             *)
basic_nack(b, ch, tag, requeue, lost) ==
    ChannelCall(b, ch, lost, FALSE,
                IF Holds(b, ch, tag)
                THEN LET d == TheDelivery(b, ch, tag)
                     IN [b EXCEPT !.unacked = @ \ {d},
                                  !.msgs[d.queue] = IF requeue THEN <<d.msg>> \o @ ELSE @]
                ELSE DropChannel(b, ch))

NackDiscard(d) == [m |-> "basic_nack", tag |-> d.tag, requeue |-> FALSE]
AckCall(d) == [m |-> "basic_ack", tag |-> d.tag, requeue |-> FALSE]
NackCall(d) == [m |-> "basic_nack", tag |-> d.tag, requeue |-> TRUE]

(* The callback start_consuming registers, run for delivery d.  fail names *)
(* the step of the try block that raises by itself ("print":               *)
(* _print_received_message, "menu": _print_menu); lostAt the channel call  *)
(* during which the transport drops.  The result: the broker state, the    *)
(* exception raised in the try block (error), the settlement calls made    *)
(* (calls), the exception that leaves the callback (escaped), and the text *)
(* and headers the callback worked with.                                   *)
callback(b, d, fail, lostAt) ==
    LET ack == basic_ack(b, d.chan, AckCall(d).tag, lostAt = "ack")
        try == IF fail = "print" THEN [b |-> b, err |-> "Exception", calls |-> <<>>]
               ELSE IF ack.err # "none"
                    THEN [b |-> ack.b, err |-> ack.err, calls |-> <<AckCall(d)>>]
                    ELSE IF fail = "menu"
                         THEN [b |-> ack.b, err |-> "Exception", calls |-> <<AckCall(d)>>]
                         ELSE [b |-> ack.b, err |-> "none", calls |-> <<AckCall(d)>>]
        nack == basic_nack(try.b, d.chan, NackCall(d).tag, NackCall(d).requeue, lostAt = "nack")
        message == decode_utf8(b.store[d.msg].body)
        headers == b.store[d.msg].headers
    IN IF try.err = "none"
       THEN [b |-> try.b, error |-> "none", calls |-> try.calls, escaped |-> "none",
             message |-> message, headers |-> headers]
       ELSE [b |-> nack.b, error |-> try.err, calls |-> Append(try.calls, NackCall(d)),
             escaped |-> nack.err, message |-> message, headers |-> headers]

Without(seq, t) == SelectSeq(seq, LAMBDA x : x # t)
InSeq(seq, t) == \E i \in 1..Len(seq) : seq[i] = t

ConsumeThenQos(cl, b, q, tag, lostAt) ==
    LET reg == basic_consume(b, cl.channel, q, tag, lostAt = "consume")
        qos == basic_qos(reg.b, cl.channel, PrefetchCount, lostAt = "qos")
    IN IF reg.err # "none" THEN [cl |-> cl, b |-> reg.b, err |-> reg.err, fault |-> reg.err]
       ELSE IF qos.err # "none" THEN [cl |-> cl, b |-> qos.b, err |-> qos.err, fault |-> qos.err]
       ELSE [cl |-> [cl EXCEPT !.active_consumers =
                                  IF InSeq(@, tag) THEN @ ELSE Append(@, tag)],
             b |-> qos.b, err |-> "none", fault |-> "none"]

(* The with-block of start_consuming *)
start_consuming_body(cl, b, q, tag, lostAt) ==
    LET qos == basic_qos(b, cl.channel, PrefetchCount, lostAt = "qos")
        reg == basic_consume(qos.b, cl.channel, q, tag, lostAt = "consume")
    IN IF qos.err # "none" THEN [cl |-> cl, b |-> qos.b, err |-> qos.err, fault |-> qos.err]
       ELSE IF reg.err # "none" THEN [cl |-> cl, b |-> reg.b, err |-> reg.err, fault |-> reg.err]
       ELSE [cl |-> [cl EXCEPT !.active_consumers =
                                  IF InSeq(@, tag) THEN @ ELSE Append(@, tag)],
             b |-> reg.b, err |-> "none", fault |-> "none"]

MessageConsumer_start_consuming(who, cl, b, q, tag, lostAt, xo) ==
    LET body == start_consuming_body(cl, b, q, tag, lostAt)
    IN channel_operation(who, body.cl, body, xo)

(* for tag in list(self.active_consumers.keys()): cancel, then delete *)
RECURSIVE cancel_each(_, _, _, _)
cancel_each(cl, b, tags, lost) ==
    IF tags = <<>> THEN [cl |-> cl, b |-> b, err |-> "none", fault |-> "none"]
    ELSE LET r == basic_cancel(b, cl.channel, Head(tags), lost)
         IN IF r.err # "none" THEN [cl |-> cl, b |-> r.b, err |-> r.err, fault |-> r.err]
            ELSE cancel_each([cl EXCEPT !.active_consumers = Without(@, Head(tags))],
                             r.b, Tail(tags), lost)

StopAll(cl, b, tag, lost) == cancel_each(cl, b, cl.active_consumers, lost)

(* The with-block of stop_consuming; tag "None" is the default argument *)
stop_consuming_body(cl, b, tag, lost) ==
    IF tag # "None" /\ InSeq(cl.active_consumers, tag)
    THEN cancel_each(cl, b, <<tag>>, lost)
    ELSE IF tag = "None"
         THEN cancel_each(cl, b, cl.active_consumers, lost)
         ELSE [cl |-> cl, b |-> b, err |-> "none", fault |-> "none"]

MessageConsumer_stop_consuming(who, cl, b, tag, lost, xo) ==
    LET body == stop_consuming_body(cl, b, tag, lost)
    IN channel_operation(who, body.cl, body, xo)

(* except-handlers of run(): stop_consuming(), then return (e is           *)
(* KeyboardInterrupt) or re-raise e.  An exception of stop_consuming       *)
(* itself leaves the handler in place of e.                                *)
run_handler(who, cl, b, e, lost, xo) ==
    LET s == MessageConsumer_stop_consuming(who, cl, b, "None", lost, xo)
    IN [cl |-> [s.cl EXCEPT !.running = FALSE], b |-> s.b, fault |-> e, body |-> e,
        raised |-> IF s.raised # "none" THEN s.raised
                   ELSE IF e = "KeyboardInterrupt" THEN "none" ELSE e]

(* ------------------------------- state --------------------------------- *)
NoQueue == [exists |-> FALSE, durable |-> FALSE, dlx |-> FALSE]
InitQueues == {NoQueue,
               [exists |-> TRUE, durable |-> TRUE, dlx |-> TRUE],
               [exists |-> TRUE, durable |-> TRUE, dlx |-> FALSE]}

NoOutcome == [who |-> "none", op |-> "none", fault |-> "none", body |-> "none",
              raised |-> "none", fresh |-> FALSE, chan_open |-> FALSE,
              conn_open |-> FALSE, late |-> FALSE]

(* What a finished call of client who left: the exceptions (see            *)
(* channel_operation), whether the channel held at exit is another one     *)
(* than at entry (fresh), whether the channel and connection held at exit  *)
(* are open, and for close() whether an earlier close() of this client had *)
(* completed (late).                                                       *)
Outcome(who, op, cl0, r, late) ==
    [who |-> who, op |-> op, fault |-> r.fault, body |-> r.body, raised |-> r.raised,
     fresh |-> r.cl.channel # cl0.channel,
     chan_open |-> ChanOpen(r.b, r.cl.channel),
     conn_open |-> ConnOpen(r.b, r.cl.connection), late |-> late]

(* A closed channel that no client holds any more is garbage: its slot is  *)
(* free for the next connection.channel().                                 *)
Tidy(b, held) ==
    [b EXCEPT !.chans = [i \in ChanIds |->
                           IF ~@[i].open /\ i \notin held
                           THEN [conn |-> None, open |-> FALSE,
                                 prefetch |-> PrefetchCountUnset, next_tag |-> 1]
                           ELSE @[i]]]

Held(clf) == {clf[c].channel : c \in Clients}

(* The broker as a run of the program finds it: queue q1 is as q0 says and  *)
(* holds the messages m0 that earlier runs published.                      *)
World(q0, m0) ==
    [conns |-> [i \in ConnIds |-> [state |-> "unused", opener |-> "none",
                                   closer |-> "none"]],
     chans |-> [i \in ChanIds |-> [conn |-> None, open |-> FALSE,
                                   prefetch |-> PrefetchCountUnset, next_tag |-> 1]],
     exchanges |-> [e \in ExNames |-> "none"],
     queues |-> [q \in QNames |-> q0],
     msgs |-> [q \in QNames |-> m0],
     bindings |-> {},
     store |-> [m \in 1..MaxMsgs |-> [body |-> encode_utf8(OldText), headers |-> NoHeaders]],
     consumers |-> {},
     unacked |-> {},
     sent |-> Len(m0),
     enq |-> {m0[i] : i \in 1..Len(m0)}]

Unborn == [life |-> "unborn", connection |-> None, connection_params |-> FALSE,
           adopted |-> FALSE, channel |-> None, active_consumers |-> <<>>,
           running |-> FALSE, closed |-> FALSE]

NoCallback == [chan |-> None, tag |-> 0, msg |-> 0, error |-> "none", calls |-> <<>>,
               escaped |-> "none", message |-> <<>>, headers |-> NoHeaders]

(* RabbitMQClient.__init__(connection_params, connection) on object cl *)
init(who, cl, b, conn, params, co, xo) ==
    LET cl0 == [cl EXCEPT !.life = "live", !.connection = conn,
                          !.connection_params = params, !.adopted = conn # None]
        r == initialize_channel(who, cl0, b, co, xo)
    IN [cl |-> IF r.err = "none" THEN r.cl ELSE [r.cl EXCEPT !.life = "failed"],
        b |-> r.b, fault |-> r.err, body |-> r.err, raised |-> r.err]

Unpublished == [m \in 1..MaxMsgs |-> [message |-> OldText, headers |-> NoHeaders]]

(* Before any object exists *)
InitWorld(q0, m0) ==
    /\ broker = World(q0, m0)
    /\ client = [c \in Clients |-> Unborn]
    /\ app = [state |-> "out", conn |-> None]
    /\ last = NoOutcome
    /\ cb = NoCallback
    /\ processed = {}
    /\ published = Unpublished

Idle(c) == client[c].life = "live" /\ ~client[c].running

(* ------------------------ app.py: the scope ---------------------------- *)
(* with rabbitmq_connection() as connection: entry *)
ScopeEnter(co) ==
    /\ app.state = "out"
    /\ FreeConns(broker) # {}
    /\ IF co = "ok"
       THEN /\ broker' = OpenConnection(broker, Min(FreeConns(broker)), "app")
            /\ app' = [state |-> "in", conn |-> Min(FreeConns(broker))]
       ELSE /\ broker' = broker
            /\ app' = [state |-> "closed", conn |-> None]
    /\ last' = NoOutcome
    /\ cb' = NoCallback
    /\ UNCHANGED <<client, processed, published>>

(* the finally clause: the block ended, normally or with an exception *)
ScopeExit ==
    /\ app.state = "in"
    /\ \A c \in Clients : ~client[c].running
    /\ broker' = IF ConnOpen(broker, app.conn)
                 THEN Tidy(DropConnection(broker, app.conn, "app"), Held(client))
                 ELSE broker
    /\ app' = [app EXCEPT !.state = "closed"]
    /\ last' = NoOutcome
    /\ cb' = NoCallback
    /\ UNCHANGED <<client, processed, published>>

(* --------------------------- client calls ------------------------------ *)
(* A call of client c ends: the object, the broker and the record of the   *)
(* call are as r says.                                                     *)
Finish(c, op, r, late) ==
    /\ client' = [client EXCEPT ![c] = r.cl]
    /\ broker' = Tidy(r.b, Held([client EXCEPT ![c] = r.cl]))
    /\ last' = Outcome(c, op, client[c], r, late)

(* MessageProducer(...) / MessageConsumer(...) *)
Construct(c, useConn, useParams, co, xo) ==
    /\ client[c].life = "unborn"
    /\ useConn => app.state = "in"
    /\ FreeConns(broker) # {}
    /\ Finish(c, "init",
              init(c, client[c], broker, IF useConn THEN app.conn ELSE None, useParams,
                   co, xo), FALSE)
    /\ cb' = NoCallback
    /\ UNCHANGED <<app, processed, published>>

Close(c, lost) ==
    /\ Idle(c)
    /\ LET r == IF ClassOf(c) = "MessageProducer"
                THEN MessageProducer_close(c, client[c], broker, lost)
                ELSE RabbitMQClient_close(c, client[c], broker, lost)
       IN Finish(c, "close", [r EXCEPT !.cl.closed = TRUE], client[c].closed)
    /\ cb' = NoCallback
    /\ UNCHANGED <<app, processed, published>>

DeclareExchange(c, e, kind, lost, xo) ==
    /\ Idle(c)
    /\ LET r == IF ClassOf(c) = "MessageProducer"
                THEN MessageProducer_declare_exchange(c, client[c], broker, e, kind, lost, xo)
                ELSE RabbitMQClient_declare_exchange(c, client[c], broker, e, kind, lost, xo)
       IN Finish(c, "declare_exchange", r, FALSE)
    /\ cb' = NoCallback
    /\ UNCHANGED <<app, processed, published>>

DeclareQueue(c, q, lost, xo) ==
    /\ Idle(c)
    /\ LET r == IF ClassOf(c) = "MessageProducer"
                THEN MessageProducer_declare_queue(c, client[c], broker, q, lost, xo)
                ELSE RabbitMQClient_declare_queue(c, client[c], broker, q, lost, xo)
       IN Finish(c, "declare_queue", r, FALSE)
    /\ cb' = NoCallback
    /\ UNCHANGED <<app, processed, published>>

BindQueue(c, q, e, k, lost, xo) ==
    /\ Idle(c)
    /\ LET r == IF ClassOf(c) = "MessageProducer"
                THEN MessageProducer_bind_queue(c, client[c], broker, q, e, k, lost, xo)
                ELSE RabbitMQClient_bind_queue(c, client[c], broker, q, e, k, lost, xo)
       IN Finish(c, "bind_queue", r, FALSE)
    /\ cb' = NoCallback
    /\ UNCHANGED <<app, processed, published>>

SendMessage(e, k, message, headers, lost, xo) ==
    /\ Idle("prod")
    /\ broker.sent < MaxMsgs
    /\ LET m == broker.sent + 1
           r == MessageProducer_send_message("prod", client["prod"], broker, e, k, m,
                                             message, headers, lost, xo)
       IN /\ Finish("prod", "send_message", r, FALSE)
          /\ published' = IF r.b.sent = m
                          THEN [published EXCEPT ![m] = [message |-> message,
                                                         headers |-> headers]]
                          ELSE published
    /\ cb' = NoCallback
    /\ UNCHANGED <<app, processed>>

StartConsuming(q, tag, lostAt, xo) ==
    /\ Idle("cons")
    /\ Finish("cons", "start_consuming",
              MessageConsumer_start_consuming("cons", client["cons"], broker, q, tag,
                                              lostAt, xo), FALSE)
    /\ cb' = NoCallback
    /\ UNCHANGED <<app, processed, published>>

StopConsuming(tag, lost, xo) ==
    /\ Idle("cons")
    /\ Finish("cons", "stop_consuming",
              MessageConsumer_stop_consuming("cons", client["cons"], broker, tag,
                                             lost, xo), FALSE)
    /\ cb' = NoCallback
    /\ UNCHANGED <<app, processed, published>>

(* MessageConsumer.run up to the point where it blocks.  pika's            *)
(* start_consuming raises on a closed channel and returns at once when the *)
(* channel holds no consumer.                                              *)
Run ==
    /\ Idle("cons")
    /\ LET cl == client["cons"]
           ret == [cl |-> cl, b |-> broker, fault |-> "none", body |-> "none",
                   raised |-> "none"]
       IN IF cl.active_consumers = <<>>
          THEN Finish("cons", "run", ret, FALSE)
          ELSE IF ~ChanOpen(broker, cl.channel)
               THEN Finish("cons", "run",
                           run_handler("cons", cl, broker, "ChannelWrongStateError",
                                       FALSE, "ok"), FALSE)
               ELSE IF \A k \in broker.consumers : k.chan # cl.channel
                    THEN Finish("cons", "run", ret, FALSE)
                    ELSE /\ client' = [client EXCEPT !["cons"].running = TRUE]
                         /\ last' = NoOutcome
                         /\ UNCHANGED broker
    /\ cb' = NoCallback
    /\ UNCHANGED <<app, processed, published>>

(* The broker pushes the head of the queue to consumer k, within k's       *)
(* prefetch limit (0: no limit).                                           *)
Deliver(k) ==
    /\ k \in broker.consumers
    /\ broker.msgs[k.queue] # <<>>
    /\ broker.chans[k.chan].next_tag <= MaxDeliveries
    /\ k.prefetch = 0 \/
       Cardinality({d \in broker.unacked : d.chan = k.chan /\ d.ctag = k.ctag}) < k.prefetch
    /\ broker' = [broker EXCEPT
                    !.msgs[k.queue] = Tail(@),
                    !.unacked = @ \cup {[chan |-> k.chan, tag |-> broker.chans[k.chan].next_tag,
                                         ctag |-> k.ctag, queue |-> k.queue,
                                         msg |-> Head(broker.msgs[k.queue])]},
                    !.chans[k.chan].next_tag = @ + 1]
    /\ last' = NoOutcome
    /\ cb' = NoCallback
    /\ UNCHANGED <<client, app, processed, published>>

(* run() blocked in channel.start_consuming(): pika hands the oldest       *)
(* delivery of a channel of the connection to the callback.  An exception  *)
(* that leaves the callback leaves start_consuming and reaches run()'s     *)
(* except-handler.                                                         *)
Callback(ch, fail, lostAt) ==
    /\ client["cons"].running
    /\ ChanOpen(broker, ch)
    /\ broker.chans[ch].conn = client["cons"].connection
    /\ \E d \in broker.unacked :
         /\ d.chan = ch
         /\ \A o \in broker.unacked : o.chan = ch => d.tag <= o.tag
         /\ LET r == callback(broker, d, fail, lostAt)
            IN /\ cb' = [chan |-> ch, tag |-> d.tag, msg |-> d.msg, error |-> r.error,
                         calls |-> r.calls, escaped |-> r.escaped,
                         message |-> r.message, headers |-> r.headers]
               /\ processed' = IF r.error = "none" THEN processed \cup {d.msg} ELSE processed
               /\ IF r.escaped = "none"
                  THEN /\ broker' = Tidy(r.b, Held(client))
                       /\ last' = NoOutcome
                       /\ UNCHANGED client
                  ELSE Finish("cons", "run",
                              run_handler("cons", client["cons"], r.b, r.escaped,
                                          FALSE, "ok"), FALSE)
    /\ UNCHANGED <<app, published>>

(* KeyboardInterrupt while run() is blocked *)
Interrupt(lost) ==
    /\ client["cons"].running
    /\ Finish("cons", "run",
              run_handler("cons", client["cons"], broker, "KeyboardInterrupt", lost, "ok"),
              FALSE)
    /\ cb' = NoCallback
    /\ UNCHANGED <<app, processed, published>>

(* run() is blocked and its channel has ended, or the transport drops     *)
(* (lost): start_consuming raises.                                         *)
RunFault(lost) ==
    /\ client["cons"].running
    /\ lost \/ ~ChanOpen(broker, client["cons"].channel)
    /\ LET gone == lost /\ ConnOpen(broker, client["cons"].connection)
           b == IF gone THEN DropConnection(broker, client["cons"].connection, "lost")
                ELSE broker
       IN Finish("cons", "run",
                 run_handler("cons", client["cons"], b,
                             IF ConnOpen(b, client["cons"].connection)
                             THEN "ChannelClosedByBroker" ELSE "StreamLostError",
                             FALSE, "ok"), FALSE)
    /\ cb' = NoCallback
    /\ UNCHANGED <<app, processed, published>>

(* ---------------------------- specifications --------------------------- *)
ChanOutcomes == {"ok", "refused", "lost"}
ConnOutcomes == {"ok", "fail"}

Environment ==
    \/ \E co \in ConnOutcomes : ScopeEnter(co)
    \/ ScopeExit

Lifecycle(c) ==
    \/ \E useConn \in BOOLEAN, useParams \in BOOLEAN,
          co \in ConnOutcomes, xo \in ChanOutcomes : Construct(c, useConn, useParams, co, xo)
    \/ \E lost \in BOOLEAN : Close(c, lost)

Topology(c) ==
    \/ \E e \in ExNames, kind \in Kinds, lost \in BOOLEAN, xo \in ChanOutcomes :
          DeclareExchange(c, e, kind, lost, xo)
    \/ \E q \in QNames, lost \in BOOLEAN, xo \in ChanOutcomes :
          DeclareQueue(c, q, lost, xo)
    \/ \E q \in QNames, e \in ExNames, k \in Keys, lost \in BOOLEAN,
          xo \in ChanOutcomes : BindQueue(c, q, e, k, lost, xo)

(* A producer process: app.py's scope and a MessageProducer *)
InitProducer == \E q0 \in InitQueues : InitWorld(q0, <<>>)

NextProducer ==
    \/ Environment
    \/ Lifecycle("prod")
    \/ Topology("prod")
    \/ \E e \in ExNames, k \in Keys, lost \in BOOLEAN, xo \in ChanOutcomes :
          SendMessage(e, k, <<233>>, NoHeaders, lost, xo)

SpecProducer == InitProducer /\ [][NextProducer]_vars

(* The methods MessageConsumer inherits unchanged from RabbitMQClient,     *)
(* inside and outside app.py's scope                                       *)
InitBase == \E q0 \in InitQueues : InitWorld(q0, <<>>)

NextBase ==
    \/ Environment
    \/ Lifecycle("cons")
    \/ Topology("cons")

SpecBase == InitBase /\ [][NextBase]_vars

(* A consumer process: a MessageConsumer constructed from connection       *)
(* parameters, on a broker whose queue, when it exists, holds MaxMsgs      *)
(* messages.                                                               *)
Backlog == [i \in 1..MaxMsgs |-> i]

InitConsumerOn(w) ==
    LET r == init("cons", Unborn, w, None, TRUE, "ok", "ok")
    IN /\ broker = r.b
       /\ client = [c \in Clients |-> IF c = "cons" THEN r.cl ELSE Unborn]
       /\ app = [state |-> "out", conn |-> None]
       /\ last = Outcome("cons", "init", Unborn, r, FALSE)
       /\ cb = NoCallback
       /\ processed = {}
       /\ published = Unpublished

InitConsumer ==
    \/ InitConsumerOn(World(NoQueue, <<>>))
    \/ \E q0 \in InitQueues \ {NoQueue} : InitConsumerOn(World(q0, Backlog))

NextConsumer ==
    \/ \E lost \in BOOLEAN : Close("cons", lost)
    \/ \E q \in QNames, lost \in BOOLEAN, xo \in ChanOutcomes :
          DeclareQueue("cons", q, lost, xo)
    \/ \E q \in QNames, tag \in Tags, lostAt \in {"no", "qos", "consume"},
          xo \in ChanOutcomes : StartConsuming(q, tag, lostAt, xo)
    \/ \E tag \in Tags \cup {"None"}, lost \in BOOLEAN, xo \in ChanOutcomes :
          StopConsuming(tag, lost, xo)
    \/ Run
    \/ \E k \in broker.consumers : Deliver(k)
    \/ \E ch \in ChanIds, fail \in {"none", "print", "menu"},
          lostAt \in {"no", "ack", "nack"} : Callback(ch, fail, lostAt)
    \/ \E lost \in BOOLEAN : Interrupt(lost)
    \/ \E lost \in BOOLEAN : RunFault(lost)

SpecConsumer == InitConsumer /\ [][NextConsumer]_vars

(* The process of client c ends: the system closes its sockets and the     *)
(* object is gone.                                                         *)
ProcessExit(c) ==
    /\ Idle(c)
    /\ LET cn == client[c].connection
           b == IF ConnOpen(broker, cn) /\ ~client[c].adopted
                THEN DropConnection(broker, cn, "exit") ELSE broker
           clf == [client EXCEPT ![c] = [Unborn EXCEPT !.life = "gone"]]
       IN /\ client' = clf
          /\ broker' = Tidy(b, Held(clf))
    /\ last' = NoOutcome
    /\ cb' = NoCallback
    /\ UNCHANGED <<app, processed, published>>

(* A producer process publishes to an exchange bound to the queue and      *)
(* ends; a consumer process registers on the queue and consumes.  Neither  *)
(* the broker nor the transport nor the handler fails.                     *)
Bound(w, kind) ==
    [w EXCEPT !.exchanges = [e \in ExNames |-> kind],
              !.bindings = {<<q, e, k>> : q \in QNames, e \in ExNames, k \in Keys}]

InitRoundTrip ==
    \E kind \in Kinds :
        LET w == Bound(World([exists |-> TRUE, durable |-> TRUE, dlx |-> TRUE], <<>>), kind)
            r == init("prod", Unborn, w, None, TRUE, "ok", "ok")
        IN /\ broker = r.b
           /\ client = [c \in Clients |-> IF c = "prod" THEN r.cl ELSE Unborn]
           /\ app = [state |-> "out", conn |-> None]
           /\ last = Outcome("prod", "init", Unborn, r, FALSE)
           /\ cb = NoCallback
           /\ processed = {}
           /\ published = Unpublished

NextRoundTrip ==
    \/ \E e \in ExNames, k \in Keys, message \in Texts, headers \in HeaderMaps :
          SendMessage(e, k, message, headers, FALSE, "ok")
    \/ ProcessExit("prod")
    \/ Construct("cons", FALSE, TRUE, "ok", "ok")
    \/ \E q \in QNames : StartConsuming(q, "t1", "no", "ok")
    \/ Run
    \/ \E k \in broker.consumers : Deliver(k)
    \/ \E ch \in ChanIds : Callback(ch, "none", "no")

SpecRoundTrip == InitRoundTrip /\ [][NextRoundTrip]_vars

(* ------------------------------ properties ----------------------------- *)
ChannelOps == {"declare_exchange", "declare_queue", "bind_queue", "send_message",
               "start_consuming", "stop_consuming"}
AMQPError == AMQPChannelError \cup AMQPConnectionError
Unsettled(ch) == {d \in broker.unacked : d.chan = ch}
UnsettledOf(ch, tag) == {d \in broker.unacked : d.chan = ch /\ d.ctag = tag}
InQueue(m) == \E q \in QNames : InSeq(broker.msgs[q], m)
InFlight(m) == \E d \in broker.unacked : d.msg = m
OwnConnection(c) == client[c].connection # None /\ ~client[c].adopted

(* C1: a callback whose try block completed made exactly one settlement    *)
(* call, basic_ack of the tag of its delivery; a callback whose try block  *)
(* raised ended with basic_nack of the tag of its delivery, requeue=True.  *)
C1_AckOrNackRequeue ==
    cb.tag # 0 =>
        /\ cb.error = "none" =>
              cb.calls = <<[m |-> "basic_ack", tag |-> cb.tag, requeue |-> FALSE]>>
        /\ cb.error # "none" =>
              /\ cb.calls # <<>>
              /\ cb.calls[Len(cb.calls)] =
                    [m |-> "basic_nack", tag |-> cb.tag, requeue |-> TRUE]

(* a callback has just failed after an earlier one had succeeded *)
C1_Witness == cb.tag # 0 /\ cb.error # "none" /\ processed # {}

(* C2: no exception leaves the callback, whichever step of it failed.      *)
C2_NothingEscapesCallback == cb.tag # 0 => cb.escaped = "none"

(* C3: a message that reached the queue is in the queue or in flight on a  *)
(* channel until a callback processed it without error.                    *)
C3_NoMessageLost ==
    \A m \in broker.enq : InQueue(m) \/ InFlight(m) \/ m \in processed

(* C4: every consumer registration has at most one unsettled delivery: the *)
(* broker hands it the next message only after the previous one was acked  *)
(* or nacked.  A channel with one registration so has at most one.         *)
C4_OneUnsettledPerConsumer ==
    \A ch \in ChanIds :
        /\ \A tag \in Tags : Cardinality(UnsettledOf(ch, tag)) <= 1
        /\ Cardinality({k \in broker.consumers : k.chan = ch}) <= 1 =>
              Cardinality(Unsettled(ch)) <= 1

(* a consumer holds one unsettled delivery while the next message waits in *)
(* its queue                                                               *)
C4_Witness ==
    \E k \in broker.consumers :
        /\ broker.msgs[k.queue] # <<>>
        /\ UnsettledOf(k.chan, k.ctag) # {}

(* C4 as stated: at most one unsettled delivery per channel *)
C4_OneUnsettledPerChannel ==
    \A ch \in ChanIds : Cardinality(Unsettled(ch)) <= 1

(* C5: no client closes a connection that it was constructed around.       *)
C5_AdoptedNeverClosedByClient ==
    \A c \in Clients :
        client[c].adopted => broker.conns[client[c].connection].closer # c

(* C6: after close() of a client that opened its own connection, its       *)
(* channel and that connection are closed.                                 *)
C6_CloseReleasesOwnConnection ==
    (last.op = "close" /\ OwnConnection(last.who)) =>
        ~last.chan_open /\ ~last.conn_open

(* C7: a close() that follows a completed close() of the same client       *)
(* raises nothing and leaves the channel closed.                           *)
C7_CloseIdempotent ==
    (last.op = "close" /\ last.late) => last.raised = "none" /\ ~last.chan_open

(* C8: no connection opened by a client whose construction failed, or by   *)
(* the scope after it ended, is open.                                      *)
C8_NoLeakedConnection ==
    \A i \in ConnIds :
        broker.conns[i].state = "open" =>
            /\ \A c \in Clients : broker.conns[i].opener = c => client[c].life # "failed"
            /\ broker.conns[i].opener = "app" => app.state = "in"

(* C9: an operation in which a pika call raised a channel-level error and  *)
(* whose connection is open at its end leaves the client with another      *)
(* channel than it entered with, and that channel is open.                 *)
C9_FreshChannelAfterChannelError ==
    (last.op \in ChannelOps /\ last.fault \in AMQPChannelError /\ last.conn_open) =>
        last.fresh /\ last.chan_open

(* C10: when the with-block of channel_operation ends with a channel-level *)
(* or connection-level exception, the caller receives that exception.      *)
C10_CausingFaultReraised ==
    (last.op \in ChannelOps /\ last.body \in AMQPError) => last.raised = last.body

(* the with-block raised an AMQP exception and the channel re-creation of  *)
(* channel_operation went through: the caller received that exception      *)
Recovered == last.body \in AMQPError /\ last.raised = last.body

(* C11: a declare_exchange that the broker rejects (the name exists with   *)
(* another kind) raises to the caller; once the wrapper has re-created the *)
(* channel the client holds a new open channel, and the client's next      *)
(* declare, bind or publish does not fail on a closed channel.             *)
ExchangeConflict == last.op = "declare_exchange" /\ last.fault = "ChannelClosedByBroker"

C11_ConflictRaisesAndRecovers ==
    /\ [](ExchangeConflict => last.raised # "none")
    /\ []((ExchangeConflict /\ Recovered) => (last.fresh /\ last.chan_open))
    /\ [][(ExchangeConflict /\ Recovered /\ last'.who = last.who /\ last'.op \in ChannelOps)
              => last'.fault # "ChannelWrongStateError"]_vars

C11_Witness == ExchangeConflict /\ Recovered /\ last.chan_open

(* the queue MessageProducer.declare_queue is written to create *)
DeadLetterQueue == [exists |-> TRUE, durable |-> TRUE, dlx |-> TRUE]

(* C12: the producer's declare_queue whose passive declare the broker      *)
(* rejected (the queue is absent) returns without error and leaves the     *)
(* queue declared durable with the dead-letter argument.                   *)
C12_AbsentQueueCreated ==
    (last.op = "declare_queue" /\ ClassOf(last.who) = "MessageProducer"
         /\ last.fault = "ChannelClosedByBroker") =>
        /\ last.raised = "none"
        /\ \A q \in QNames : broker.queues[q] = DeadLetterQueue

(* C13: the producer's declare_queue for a queue that exists leaves every  *)
(* queue as it was and gets no rejection from the broker (a full declare   *)
(* with other arguments than the queue has would be rejected).             *)
C13_PresentQueueUntouched ==
    [][(last'.op = "declare_queue" /\ ClassOf(last'.who) = "MessageProducer"
          /\ \A q \in QNames : broker.queues[q].exists)
         => (broker'.queues = broker.queues /\ last'.fault # "ChannelClosedByBroker")]_vars

(* declare_queue returned normally on a queue that exists without the      *)
(* dead-letter argument                                                    *)
C13_Witness ==
    /\ last.op = "declare_queue" /\ ClassOf(last.who) = "MessageProducer"
    /\ last.raised = "none"
    /\ \E q \in QNames : broker.queues[q].exists /\ ~broker.queues[q].dlx

(* the channels opened by a step *)
Opened == {ch \in ChanIds : broker'.chans[ch].open /\ ~broker.chans[ch].open}

(* C14: one send_message makes the broker accept at most one publish and   *)
(* opens at most one channel; when it raises, the broker has accepted none *)
(* and no queue has changed.                                               *)
C14_OnePublishPerSend ==
    [][last'.op = "send_message" =>
          /\ broker'.sent \in {broker.sent, broker.sent + 1}
          /\ \A q \in QNames : Len(broker'.msgs[q]) <= Len(broker.msgs[q]) + 1
          /\ Cardinality(Opened) <= 1
          /\ last'.raised # "none" =>
                (broker'.sent = broker.sent /\ broker'.msgs = broker.msgs)]_vars

(* a send_message raised and left the client on a re-created channel, with *)
(* an exchange present that a repeated publish would have reached          *)
C14_Witness ==
    /\ last.op = "send_message" /\ last.raised # "none" /\ last.fresh
    /\ \E e \in ExNames : broker.exchanges[e] # "none"

(* how often message m is in a queue *)
RECURSIVE Count(_, _)
Count(seq, m) ==
    IF seq = <<>> THEN 0
    ELSE (IF Head(seq) = m THEN 1 ELSE 0) + Count(Tail(seq), m)

Copies(m) ==
    Count(broker.msgs[CHOOSE q \in QNames : TRUE], m) + Cardinality({d \in broker.unacked : d.msg = m})
        + (IF m \in processed THEN 1 ELSE 0)

(* C15: without failures, the callback receives for a message the text and *)
(* the headers send_message was called with, and every message routed to   *)
(* the queue is there once, or with the consumer once, or was handled by   *)
(* the callback once.                                                      *)
C15_RoundTrip ==
    /\ cb.tag # 0 =>
          /\ cb.message = published[cb.msg].message
          /\ cb.headers = published[cb.msg].headers
          /\ cb.error = "none"
    /\ \A m \in 1..MaxMsgs : Copies(m) = (IF m <= broker.sent THEN 1 ELSE 0)

(* the callback has handled a text of two code points, the first longer    *)
(* than one byte, published with headers                                   *)
C15_Witness ==
    /\ cb.tag # 0 /\ Len(cb.message) = MaxText /\ cb.message[1] > 127
    /\ ~cb.headers.none
    /\ cb.msg \in processed

ActiveTags(c) == {client[c].active_consumers[i] : i \in 1..Len(client[c].active_consumers)}

(* C16: stop_consuming with a tag that is not in the active set raises     *)
(* nothing, calls nothing on the channel and changes neither the broker    *)
(* nor the client.                                                         *)
C16_UnknownTagNoOp ==
    [][\A tag \in Tags, lost \in BOOLEAN, xo \in ChanOutcomes :
          (tag \notin ActiveTags("cons") /\ StopConsuming(tag, lost, xo)) =>
              /\ last'.raised = "none" /\ last'.fault = "none"
              /\ broker' = broker
              /\ client' = client]_vars

(* stop_consuming has returned and left a tag active *)
C16_Witness ==
    last.op = "stop_consuming" /\ last.raised = "none" /\ ActiveTags("cons") # {}

(* C17: a stop_consuming that returns removes from the active set the tag  *)
(* it was given, or every tag when it was given none, and leaves no        *)
(* registration of a removed tag on the client's connection.               *)
C17_StopCancelsAndRemoves ==
    [][\A tag \in Tags \cup {"None"}, lost \in BOOLEAN, xo \in ChanOutcomes :
          (StopConsuming(tag, lost, xo) /\ last'.raised = "none"
             /\ (tag = "None" \/ tag \in ActiveTags("cons"))) =>
              LET stopped == IF tag = "None" THEN ActiveTags("cons") ELSE {tag}
              IN /\ client'["cons"].active_consumers =
                       SelectSeq(client["cons"].active_consumers,
                                 LAMBDA t : t \notin stopped)
                 /\ \A k \in broker'.consumers :
                       broker'.chans[k.chan].conn = client["cons"].connection
                           => k.ctag \notin stopped]_vars

(* C18: an operation invoked while the client's connection is closed calls *)
(* no method on the channel the client holds (such a call is what raises   *)
(* ChannelWrongStateError).                                                *)
C18_NoUseAfterConnectionClosed ==
    [][(last'.op \in ChannelOps /\ ~ConnOpen(broker, client[last'.who].connection))
          => last'.fault = "none"]_vars

(* the open channels on the connection client c holds *)
OpenChannels(c) ==
    {ch \in ChanIds : broker.chans[ch].open /\ broker.chans[ch].conn = client[c].connection}

(* C19: a client that opened its connection has at most one open channel   *)
(* on it.                                                                  *)
C19_AtMostOneOpenChannel ==
    \A c \in Clients : OwnConnection(c) => Cardinality(OpenChannels(c)) <= 1

(* C20: the active set of the consumer is the set of consumer tags         *)
(* registered on the channel it holds.                                     *)
C20_ActiveSetIsRegistered ==
    client["cons"].life = "live" =>
        ActiveTags("cons") =
            {k.ctag : k \in {x \in broker.consumers : x.chan = client["cons"].channel}}

(* C21: every registered consumer was registered with prefetch limit 1 on  *)
(* a channel whose prefetch is 1, whichever channel of the client it is.   *)
C21_PrefetchOneOnConsumingChannels ==
    \A k \in broker.consumers :
        k.prefetch = 1 /\ broker.chans[k.chan].prefetch = 1

(* a consumer is registered on a channel that replaced the one created at  *)
(* construction (channel 1)                                                *)
C21_Witness ==
    \E k \in broker.consumers : k.chan = client["cons"].channel /\ k.chan # 1

(* C22: run() ends only through one of its handlers: after an interrupt it *)
(* returns normally, after another exception it raises that exception, and *)
(* in both cases the active set is empty.                                  *)
C22_RunEndsOnlyOnCancelOrError ==
    last.op = "run" =>
        /\ last.body # "none"
        /\ last.raised = (IF last.body = "KeyboardInterrupt" THEN "none" ELSE last.body)
        /\ client["cons"].active_consumers = <<>>

(* C23: a callback makes at most one settlement call for its delivery.     *)
C23_SettledAtMostOnce == cb.tag # 0 => Len(cb.calls) <= 1

(* C24: a start_consuming that raises leaves the active set as it was, and *)
(* every registration of a tag of the active set that exists on the        *)
(* client's connection is on the channel the client holds, where           *)
(* stop_consuming can cancel it.                                           *)
C24_FailedStartKeepsActiveSet ==
    [][(last'.op = "start_consuming" /\ last'.raised # "none") =>
          /\ client'["cons"].active_consumers = client["cons"].active_consumers
          /\ \A k \in broker'.consumers :
                (broker'.chans[k.chan].conn = client'["cons"].connection
                    /\ InSeq(client'["cons"].active_consumers, k.ctag))
                  => k.chan = client'["cons"].channel]_vars

====
